---- MODULE Spec2Model ----
(***************************************************************************)
(* A model of the SoulPainterMinis API (src/main.py): the three handlers   *)
(* estimate, submit_contact and test_database.                             *)
(*                                                                         *)
(* estimate computes in Python floats (IEEE 754 binary64, round to nearest *)
(* even).  The model keeps that arithmetic exactly: a float is a sign, a   *)
(* 53 bit significand and a binary exponent, the significand being a       *)
(* natural number held as a little-endian sequence of limbs, because the   *)
(* products of two significands do not fit a machine integer.              *)
(***************************************************************************)
EXTENDS Integers, Sequences, FiniteSets, TLC

(***************************************************************************)
(* Bounds of the model.                                                    *)
(***************************************************************************)
MaxAddons == 2
MaxFiles == 2
MaxAddonsStr == 3
MaxCollections == 11

(***************************************************************************)
(* Natural numbers of any size: <<l1, ..., ln>> is l1 + l2*Base + ...,     *)
(* every limb in 0..Base-1 and the last limb not 0 (<<>> is 0).            *)
(***************************************************************************)
LimbBits == 13
Base == 2^LimbBits

Max(a, b) == IF a >= b THEN a ELSE b
Min(a, b) == IF a <= b THEN a ELSE b

Limb(a, i) == IF i >= 1 /\ i <= Len(a) THEN a[i] ELSE 0

RECURSIVE Trim(_)
Trim(a) ==
    IF a = <<>> THEN <<>>
    ELSE IF a[Len(a)] = 0 THEN Trim(SubSeq(a, 1, Len(a) - 1))
    ELSE a

\* Carry propagation over columns c[i..], each column below 2^30.
RECURSIVE Norm(_, _, _)
Norm(c, i, carry) ==
    IF i > Len(c)
    THEN IF carry = 0 THEN <<>>
         ELSE <<carry % Base>> \o Norm(c, i, carry \div Base)
    ELSE LET v == c[i] + carry
         IN  <<v % Base>> \o Norm(c, i + 1, v \div Base)

IntToBig(k) == Trim(Norm(<<k>>, 1, 0))

RECURSIVE BigToInt(_)
BigToInt(a) ==
    IF a = <<>> THEN 0 ELSE a[1] + Base * BigToInt(Tail(a))

BigAdd(a, b) ==
    Trim(Norm([i \in 1..Max(Len(a), Len(b)) |-> Limb(a, i) + Limb(b, i)], 1, 0))

\* a < b
RECURSIVE BigLessFrom(_, _, _)
BigLessFrom(a, b, i) ==
    IF i = 0 THEN FALSE
    ELSE IF a[i] # b[i] THEN a[i] < b[i]
    ELSE BigLessFrom(a, b, i - 1)

BigLess(a, b) ==
    IF Len(a) # Len(b) THEN Len(a) < Len(b) ELSE BigLessFrom(a, b, Len(a))

\* a - b for a >= b, limb by limb with a borrow.
RECURSIVE SubFrom(_, _, _, _)
SubFrom(a, b, i, borrow) ==
    IF i > Len(a) THEN <<>>
    ELSE LET v == a[i] - Limb(b, i) - borrow
         IN  IF v < 0 THEN <<v + Base>> \o SubFrom(a, b, i + 1, 1)
             ELSE <<v>> \o SubFrom(a, b, i + 1, 0)

BigSub(a, b) == Trim(SubFrom(a, b, 1, 0))

RECURSIVE ColSum(_, _, _, _)
ColSum(a, b, k, i) ==
    IF i > Len(a) THEN 0
    ELSE a[i] * Limb(b, k + 1 - i) + ColSum(a, b, k, i + 1)

BigMul(a, b) ==
    IF a = <<>> \/ b = <<>> THEN <<>>
    ELSE Trim(Norm([k \in 1..(Len(a) + Len(b) - 1) |-> ColSum(a, b, k, 1)], 1, 0))

\* a * k for a small k (k < 2^17).
BigMulSmall(a, k) == Trim(Norm([i \in 1..Len(a) |-> a[i] * k], 1, 0))

\* Long division by a small d (d < 2^17), from the top limb down: the
\* quotient's limbs (top first in qs) and the remainder.
RECURSIVE DivStep(_, _, _, _)
DivStep(a, d, i, st) ==
    IF i = 0 THEN st
    ELSE LET v == st.r * Base + a[i]
         IN  DivStep(a, d, i - 1, [q |-> <<v \div d>> \o st.q, r |-> v % d])

BigDivSmall(a, d) ==
    LET st == DivStep(a, d, Len(a), [q |-> <<>>, r |-> 0])
    IN  [q |-> Trim(st.q), r |-> st.r]

BitLenSmall(v) == CHOOSE n \in 1..LimbBits : 2^(n - 1) <= v /\ v < 2^n

BitLen(a) ==
    IF a = <<>> THEN 0 ELSE LimbBits * (Len(a) - 1) + BitLenSmall(a[Len(a)])

\* Bit i of a, bit 0 the lowest.
Bit(a, i) == (Limb(a, i \div LimbBits + 1) \div 2^(i % LimbBits)) % 2

\* Some bit among the n lowest bits of a is set.
LowBitsNonZero(a, n) == \E i \in 0..(n - 1) : Bit(a, i) = 1

ShiftRight(a, n) ==
    LET q == n \div LimbBits
        r == n % LimbBits
    IN  Trim([i \in 1..Len(a) |->
                (Limb(a, i + q) \div 2^r)
                + (Limb(a, i + q + 1) % 2^r) * 2^(LimbBits - r)])

ShiftLeft(a, n) ==
    LET q == n \div LimbBits
        r == n % LimbBits
    IN  Trim([i \in 1..(Len(a) + q + 1) |->
                (Limb(a, i - q) % 2^(LimbBits - r)) * 2^r
                + (Limb(a, i - q - 1) \div 2^(LimbBits - r))])

(***************************************************************************)
(* Python float: [neg, man, exp] is (-1)^neg * man * 2^exp, man = 0 or     *)
(* 2^52 <= man < 2^53.  The exponent range of binary64 is not modelled     *)
(* (no value of the model comes near overflow or the subnormals), nor is   *)
(* the sign of zero.                                                       *)
(***************************************************************************)
MantBits == 53

Zero == [neg |-> FALSE, man |-> <<>>, exp |-> 0]

\* m rounded up at bit n (round to nearest, ties to even): whether the part
\* of m below bit n is above one half of 2^n, or equal to it with bit n set.
RoundsUp(m, n) ==
    /\ n >= 1
    /\ Bit(m, n - 1) = 1
    /\ (LowBitsNonZero(m, n - 1) \/ Bit(m, n) = 1)

\* The float nearest to (-1)^neg * m * 2^e, ties to even.
RoundToFloat(neg, m, e) ==
    IF m = <<>> THEN Zero
    ELSE LET n == BitLen(m) - MantBits
         IN  IF n <= 0
             THEN [neg |-> neg, man |-> ShiftLeft(m, -n), exp |-> e + n]
             ELSE LET q  == ShiftRight(m, n)
                      q1 == IF RoundsUp(m, n) THEN BigAdd(q, <<1>>) ELSE q
                  IN  IF BitLen(q1) > MantBits
                      THEN [neg |-> neg, man |-> ShiftRight(q1, 1), exp |-> e + n + 1]
                      ELSE [neg |-> neg, man |-> q1, exp |-> e + n]

\* float(k) of a Python int k.
FromInt(k) == RoundToFloat(k < 0, IntToBig(IF k < 0 THEN -k ELSE k), 0)

\* x * y
FMul(x, y) == RoundToFloat(x.neg # y.neg, BigMul(x.man, y.man), x.exp + y.exp)

\* x + y: the exact sum, rounded.
FAdd(x, y) ==
    IF x.man = <<>> THEN y
    ELSE IF y.man = <<>> THEN x
    ELSE LET e  == Min(x.exp, y.exp)
             mx == ShiftLeft(x.man, x.exp - e)
             my == ShiftLeft(y.man, y.exp - e)
         IN  IF x.neg = y.neg THEN RoundToFloat(x.neg, BigAdd(mx, my), e)
             ELSE IF BigLess(mx, my) THEN RoundToFloat(y.neg, BigSub(my, mx), e)
             ELSE RoundToFloat(x.neg, BigSub(mx, my), e)

\* The float a decimal literal or JSON number n/d denotes (d a power of ten,
\* n an integer): the float nearest to n/d.  The quotient is taken with
\* DecGuard extra bits and the remainder kept as a sticky bit.
DecGuard == 5 * LimbBits + 5
Dec(n, d) ==
    IF n = 0 THEN Zero
    ELSE LET a  == IF n < 0 THEN -n ELSE n
             qr == BigDivSmall(ShiftLeft(IntToBig(a), DecGuard), d)
             m  == BigAdd(ShiftLeft(qr.q, 1), IF qr.r = 0 THEN <<>> ELSE <<1>>)
         IN  RoundToFloat(n < 0, m, 0 - DecGuard - 1)

\* The exact value of x times scale (a power of ten), rounded to an integer,
\* ties to even.
RoundScaled(x, scale) ==
    IF x.man = <<>> THEN 0
    ELSE LET N == BigMulSmall(x.man, scale)
             c == IF x.exp >= 0
                  THEN BigToInt(ShiftLeft(N, x.exp))
                  ELSE LET n == 0 - x.exp
                       IN  BigToInt(ShiftRight(N, n))
                           + (IF RoundsUp(N, n) THEN 1 ELSE 0)
         IN  IF x.neg THEN 0 - c ELSE c

\* round(x, 2): CPython rounds the exact binary value of x to two decimals,
\* ties to even, and returns the float nearest to that decimal.  The result
\* is held as its signed count of hundredths.
Round2(x) == RoundScaled(x, 100)

(***************************************************************************)
(* Strings the code inspects character by character (tier, the addons     *)
(* form field) are sequences of one-character strings.                     *)
(***************************************************************************)
UpperLetters ==
    <<"A", "B", "C", "D", "E", "F", "G", "H", "I", "J", "K", "L", "M",
      "N", "O", "P", "Q", "R", "S", "T", "U", "V", "W", "X", "Y", "Z">>
LowerLetters ==
    <<"a", "b", "c", "d", "e", "f", "g", "h", "i", "j", "k", "l", "m",
      "n", "o", "p", "q", "r", "s", "t", "u", "v", "w", "x", "y", "z">>

LowerChar(c) ==
    IF \E i \in 1..Len(UpperLetters) : UpperLetters[i] = c
    THEN LowerLetters[CHOOSE i \in 1..Len(UpperLetters) : UpperLetters[i] = c]
    ELSE c

\* str.lower()
Lower(s) == [i \in 1..Len(s) |-> LowerChar(s[i])]

(***************************************************************************)
(* POST /api/estimate                                                      *)
(***************************************************************************)
addon_map ==
    [a \in {"OSL Effects", "Weathering / Battle Damage", "Advanced Basing",
            "Fine Freehand Details", "Conversions / Kitbashing", "Magnetization"} |->
        CASE a = "OSL Effects"                -> Dec(2, 10)
          [] a = "Weathering / Battle Damage" -> Dec(15, 100)
          [] a = "Advanced Basing"            -> Dec(15, 100)
          [] a = "Fine Freehand Details"      -> Dec(25, 100)
          [] a = "Conversions / Kitbashing"   -> Dec(3, 10)
          [] a = "Magnetization"              -> Dec(1, 10)]

\* Mutant: addon_map.get(a, 1).
AddonFractionDefaultOne(a) ==
    IF a \in DOMAIN addon_map THEN addon_map[a] ELSE FromInt(1)

\* addon_map.get(a, 0)
AddonFraction(a) == IF a \in DOMAIN addon_map THEN addon_map[a] ELSE FromInt(0)

\* Mutant: the comparison without .lower().
BaseMultiplierCaseSensitive(tier) ==
    IF tier = <<"s", "h", "i", "k", "a", "i">> THEN 2 ELSE 4

\* 2 if req.tier.lower() == "shikai" else 4
BaseMultiplier(tier) ==
    IF Lower(tier) = <<"s", "h", "i", "k", "a", "i">> THEN 2 ELSE 4

\* Mutant: the loop over set(req.addons), a repeated label counted once.
RECURSIVE AddAddonsDistinct(_, _, _, _)
AddAddonsDistinct(total, box_price, addons, i) ==
    IF i > Len(addons) THEN total
    ELSE IF \E j \in 1..(i - 1) : addons[j] = addons[i]
         THEN AddAddonsDistinct(total, box_price, addons, i + 1)
         ELSE AddAddonsDistinct(FAdd(total, FMul(box_price, AddonFraction(addons[i]))),
                                box_price, addons, i + 1)

\* for a in req.addons: total += req.box_price * addon_map.get(a, 0)
RECURSIVE AddAddons(_, _, _, _)
AddAddons(total, box_price, addons, i) ==
    IF i > Len(addons) THEN total
    ELSE AddAddons(FAdd(total, FMul(box_price, AddonFraction(addons[i]))),
                   box_price, addons, i + 1)

\* Mutant: total = req.box_price - base_multiplier.
EstimateTotalMinus(box_price, tier, addons) ==
    AddAddons(FAdd(box_price, FromInt(0 - BaseMultiplier(tier))), box_price, addons, 1)

\* The value of total when the loop ends, for a validated request.
EstimateTotal(box_price, tier, addons) ==
    AddAddons(FMul(box_price, FromInt(BaseMultiplier(tier))), box_price, addons, 1)

\* EstimateRequest: the JSON number box_price (here cents / 100) becomes a
\* float; tier and addons are taken as they are.  No field is range checked.
EstimateRequest(body) ==
    [box_price |-> Dec(body.box_price_cents, 100),
     tier      |-> body.tier,
     addons    |-> body.addons]

\* The request bodies of the model.
BoxPriceCents == {0 - 5000, 0, 1, 10, 5000, 10000}
Tiers ==
    { <<"s", "h", "i", "k", "a", "i">>,
      <<"S", "h", "i", "k", "a", "i">>,
      <<"S", "H", "I", "K", "A", "I">>,
      <<>>,
      <<"b", "a", "n", "k", "a", "i">>,
      <<"s", "h", "i", "k", "a">>,
      <<"s", "h", "i", "k", "a", "i", " ">> }
Labels ==
    DOMAIN addon_map \cup {"Nonexistent Addon", "magnetization"}
SeqsUpTo(S, n) == UNION {[1..k -> S] : k \in 0..n}
EstimateBodies ==
    [box_price_cents : BoxPriceCents, tier : Tiers, addons : SeqsUpTo(Labels, MaxAddons)]

VARIABLES estReq, estRes, conReq, conRes, tstReq, tstRes

vars == <<estReq, estRes, conReq, conRes, tstReq, tstRes>>

\* No request of this endpoint in the run / the request not yet handled.
Idle == [pc |-> "idle"]
Pending == [pc |-> "pending"]
\* Python's None, where a value may be None or a record.
None == [type |-> "NoneType"]

\* def estimate(req): the whole handler; base_multiplier and total are the
\* locals as they stand at the return.
estimate ==
    /\ estRes = Pending
    /\ LET req   == EstimateRequest(estReq)
           total == EstimateTotal(req.box_price, req.tier, req.addons)
       IN  estRes' = [pc              |-> "returned",
                      base_multiplier |-> BaseMultiplier(req.tier),
                      total           |-> total,
                      estimated_total |-> Round2(total)]
    /\ UNCHANGED <<estReq, conReq, conRes, tstReq, tstRes>>

EstimateInit ==
    /\ estReq \in EstimateBodies
    /\ estRes = Pending
    /\ conReq = Idle /\ conRes = Idle /\ tstReq = Idle /\ tstRes = Idle

SpecEstimate == EstimateInit /\ [][estimate]_vars

(***************************************************************************)
(* POST /api/contact                                                       *)
(***************************************************************************)
\* s.split(","): the pieces between the commas, the empty ones included.
RECURSIVE SplitFrom(_, _, _)
SplitFrom(s, i, piece) ==
    IF i > Len(s) THEN <<piece>>
    ELSE IF s[i] = "," THEN <<piece>> \o SplitFrom(s, i + 1, <<>>)
    ELSE SplitFrom(s, i + 1, Append(piece, s[i]))

Split(s) == SplitFrom(s, 1, <<>>)

\* a.strip(): a without its leading and trailing whitespace.
RECURSIVE Strip(_)
Strip(a) ==
    IF a = <<>> THEN a
    ELSE IF a[1] = " " THEN Strip(Tail(a))
    ELSE IF a[Len(a)] = " " THEN Strip(SubSeq(a, 1, Len(a) - 1))
    ELSE a

RECURSIVE StripNonEmpty(_, _)
StripNonEmpty(pieces, i) ==
    IF i > Len(pieces) THEN <<>>
    ELSE IF Strip(pieces[i]) # <<>>
         THEN <<Strip(pieces[i])>> \o StripNonEmpty(pieces, i + 1)
         ELSE StripNonEmpty(pieces, i + 1)

\* [a.strip() for a in (addons or '').split(',') if a.strip()]
AddonsList(addons) ==
    StripNonEmpty(Split(IF addons = None THEN <<>> ELSE addons.chars), 1)

\* Mutant: the loop body without its try/except.
FileInfoEntryUncaught(f) ==
    [raised |-> f.read # "ok" \/ f.close # "ok",
     entry  |-> [filename |-> f.filename, content_type |-> f.content_type,
                 size |-> [type |-> "int", value |-> f.nbytes]]]

\* One pass of the loop body over an upload f: the entry appended to
\* file_info and whether an exception leaves the loop body.  read() or
\* close() raising lands in the except branch, which appends and goes on.
FileInfoEntry(f) ==
    IF f.read = "ok" /\ f.close = "ok"
    THEN [raised |-> FALSE,
          entry  |-> [filename |-> f.filename, content_type |-> f.content_type,
                      size |-> [type |-> "int", value |-> f.nbytes]]]
    ELSE [raised |-> FALSE,
          entry  |-> [filename |-> f.filename, content_type |-> f.content_type,
                      size |-> None]]

\* if files: for f in files: ...   The loop stops at a pass that raises.
RECURSIVE FileLoop(_, _, _)
FileLoop(items, i, file_info) ==
    IF i > Len(items) THEN [raised |-> FALSE, file_info |-> file_info]
    ELSE LET step == FileInfoEntry(items[i])
         IN  IF step.raised THEN [raised |-> TRUE, file_info |-> file_info]
             ELSE FileLoop(items, i + 1, Append(file_info, step.entry))

FileInfo(files) ==
    IF files = None \/ files.items = <<>>
    THEN [raised |-> FALSE, file_info |-> <<>>]
    ELSE FileLoop(files.items, 1, <<>>)

\* try: from database import create_document / except Exception: None
ImportCreateDocument(database) ==
    IF database.import = "ok" THEN [type |-> "function"] ELSE None

\* Mutant: the call without its try/except.
PersistUncaught(create_document, database, payload) ==
    IF create_document # None
    THEN [raised |-> database.create_document # "returns",
          calls  |-> <<[collection |-> "contactrequest", payload |-> payload]>>,
          inserted_id |-> IF database.create_document = "returns"
                          THEN [type |-> "str", value |-> database.id]
                          ELSE None]
    ELSE [raised |-> FALSE, calls |-> <<>>, inserted_id |-> None]

\* if create_document: try: inserted_id = create_document(...) / except
\* Exception: inserted_id = None.  The calls made, inserted_id after them
\* and whether an exception leaves the block.
Persist(create_document, database, payload) ==
    IF create_document # None
    THEN [raised |-> FALSE,
          calls  |-> <<[collection |-> "contactrequest", payload |-> payload]>>,
          inserted_id |-> IF database.create_document = "returns"
                          THEN [type |-> "str", value |-> database.id]
                          ELSE None]
    ELSE [raised |-> FALSE, calls |-> <<>>, inserted_id |-> None]

\* The uploads, form fields and database collaborators of the model.
Uploads ==
    {[filename |-> u.filename, content_type |-> u.content_type, nbytes |-> u.nbytes,
      read |-> o.read, close |-> o.close] :
        u \in {[filename |-> "a.png", content_type |-> "image/png", nbytes |-> 3],
               [filename |-> "b.jpg", content_type |-> "image/jpeg", nbytes |-> 0]},
        o \in {[read |-> "ok", close |-> "ok"],
               [read |-> "raises", close |-> "ok"],
               [read |-> "ok", close |-> "raises"]}}
FilesFields ==
    {None} \cup {[type |-> "list", items |-> fs] : fs \in SeqsUpTo(Uploads, MaxFiles)}
AddonsFields ==
    {None} \cup {[type |-> "str", chars |-> cs] :
                    cs \in SeqsUpTo({"a", ",", " "}, MaxAddonsStr)}
TierFields == {None, [type |-> "str", chars |-> <<"S", "h", "i", "k", "a", "i">>]}
ContactDatabases ==
    {[import |-> "fails", create_document |-> "absent", id |-> "absent"],
     [import |-> "ok", create_document |-> "returns", id |-> "65f0"],
     [import |-> "ok", create_document |-> "raises", id |-> "absent"]}
ContactRequests ==
    [name : {"Ann"}, email : {"ann@example.org"}, description : {"two squads"},
     tier : TierFields, addons : AddonsFields, files : FilesFields,
     database : ContactDatabases]

\* async def submit_contact(...): the whole handler, for a request that has
\* its required fields.  An exception no except clause catches ends the
\* handler without a response body (the framework answers 500).
submit_contact ==
    /\ conRes = Pending
    /\ LET create_document == ImportCreateDocument(conReq.database)
           files   == FileInfo(conReq.files)
           payload == [name        |-> conReq.name,
                       email       |-> conReq.email,
                       description |-> conReq.description,
                       tier        |-> conReq.tier,
                       addons      |-> AddonsList(conReq.addons),
                       files       |-> files.file_info,
                       source      |-> "website"]
           saved == Persist(create_document, conReq.database, payload)
       IN  conRes' =
             IF files.raised THEN [pc |-> "raised", calls |-> <<>>]
             ELSE IF saved.raised THEN [pc |-> "raised", calls |-> saved.calls]
             ELSE [pc       |-> "returned",
                   calls    |-> saved.calls,
                   ok       |-> TRUE,
                   message  |-> "Thanks! We'll get back to you within 24-48 hours.",
                   id       |-> saved.inserted_id,
                   received |-> payload]
    /\ UNCHANGED <<estReq, estRes, conReq, tstReq, tstRes>>

ContactInit ==
    /\ conReq \in ContactRequests
    /\ conRes = Pending
    /\ estReq = Idle /\ estRes = Idle /\ tstReq = Idle /\ tstRes = Idle

SpecContact == ContactInit /\ [][submit_contact]_vars

(***************************************************************************)
(* GET /test                                                               *)
(* The texts of the response are written without their leading emoji.      *)
(* A text built from an exception is the pair of its fixed part and the    *)
(* kept part of str(e), a sequence of characters.                          *)
(***************************************************************************)
ErrLimit == 50
SliceLimit == 10

Text(t) == [text |-> t, detail |-> <<>>]

\* f"{prefix}{str(e)[:50]}"
ErrText(prefix, msg) ==
    [text |-> prefix, detail |-> SubSeq(msg, 1, Min(ErrLimit, Len(msg)))]

\* "Set" if os.getenv(NAME) else "Not Set": unset and empty both read as false.
SetOrNot(value) ==
    IF value # None /\ value.chars # <<>> THEN Text("Set") ELSE Text("Not Set")

\* getattr(db, 'name', None) or "Connected"
DbNameOrConnected(db) ==
    IF db.name.kind = "value" /\ db.name.chars # <<>>
    THEN [text |-> "name", detail |-> db.name.chars]
    ELSE Text("Connected")

\* Mutant: response["collections"] = collections, without the slice.
ListCollectionsNoSlice(db, response) ==
    IF db.list_collection_names.kind = "returns"
    THEN [exc |-> None,
          response |->
            [response EXCEPT
               !.collections = db.list_collection_names.names,
               !.database = Text("Connected & Working")]]
    ELSE [exc |-> None,
          response |->
            [response EXCEPT
               !.database = ErrText("Connected but Error: ",
                                    db.list_collection_names.msg)]]

\* The inner try: db.list_collection_names(), the slice, and its except
\* clause.  exc is the exception that leaves the block, None if none does.
ListCollections(db, response) ==
    IF db.list_collection_names.kind = "returns"
    THEN [exc |-> None,
          response |->
            [response EXCEPT
               !.collections =
                   SubSeq(db.list_collection_names.names, 1,
                          Min(SliceLimit, Len(db.list_collection_names.names))),
               !.database = Text("Connected & Working")]]
    ELSE [exc |-> None,
          response |->
            [response EXCEPT
               !.database = ErrText("Connected but Error: ",
                                    db.list_collection_names.msg)]]

\* The body of the outer try, to the point where it ends or raises.
TryBody(req, response) ==
    CASE req.database.import = "ImportError" ->
            [exc |-> [type |-> "ImportError", msg |-> <<>>], response |-> response]
      [] req.database.import = "Exception" ->
            [exc |-> [type |-> "Exception", msg |-> req.database.msg],
             response |-> response]
      [] req.database.import = "ok" /\ req.database.db = None ->
            [exc |-> None,
             response |->
               [response EXCEPT !.database = Text("Available but not initialized")]]
      [] req.database.import = "ok" /\ req.database.db # None ->
            LET db == req.database.db
                r1 == [response EXCEPT
                         !.database = Text("Available"),
                         !.database_url = SetOrNot(req.DATABASE_URL)]
            IN  IF db.name.kind = "raises"
                THEN [exc |-> [type |-> "Exception", msg |-> db.name.msg],
                      response |-> r1]
                ELSE ListCollections(db,
                        [r1 EXCEPT !.database_name = DbNameOrConnected(db),
                                   !.connection_status = "Connected"])

\* Mutant: only the except ImportError clause.
ExceptClausesImportOnly(exc, response) ==
    CASE exc = None -> [raised |-> FALSE, response |-> response]
      [] exc # None /\ exc.type = "ImportError" ->
            [raised |-> FALSE,
             response |-> [response EXCEPT
                             !.database = Text("Database module not found")]]
      [] exc # None /\ exc.type # "ImportError" ->
            [raised |-> TRUE, response |-> response]

\* except ImportError: ... / except Exception as e: ...
ExceptClauses(exc, response) ==
    CASE exc = None -> [raised |-> FALSE, response |-> response]
      [] exc # None /\ exc.type = "ImportError" ->
            [raised |-> FALSE,
             response |-> [response EXCEPT
                             !.database = Text("Database module not found")]]
      [] exc # None /\ exc.type # "ImportError" ->
            [raised |-> FALSE,
             response |-> [response EXCEPT
                             !.database = ErrText("Error: ", exc.msg)]]

\* Mutant: the last assignment to response["database_name"] left out.
FinalFieldsUrlOnly(req, response) ==
    [response EXCEPT !.database_url = SetOrNot(req.DATABASE_URL)]

\* response["database_url"] = ... / response["database_name"] = ... after the
\* try statement.
FinalFields(req, response) ==
    [response EXCEPT !.database_url = SetOrNot(req.DATABASE_URL),
                     !.database_name = SetOrNot(req.DATABASE_NAME)]

\* The environments and database modules of the model.
Message(n) == [i \in 1..n |-> IF i <= ErrLimit THEN "e" ELSE "x"]
Messages == {Message(7), Message(ErrLimit), Message(ErrLimit + 2)}
EnvValues(cs) == {None, [type |-> "str", chars |-> <<>>], [type |-> "str", chars |-> cs]}
NameAttrs ==
    {[kind |-> "absent", chars |-> <<>>, msg |-> <<>>],
     [kind |-> "value", chars |-> <<"m", "y", "d", "b">>, msg |-> <<>>],
     [kind |-> "raises", chars |-> <<>>, msg |-> Message(7)]}
ListOutcomes ==
    {[kind |-> "returns", names |-> [i \in 1..n |-> i], msg |-> <<>>] :
        n \in 0..MaxCollections}
    \cup {[kind |-> "raises", names |-> <<>>, msg |-> m] : m \in Messages}
DbObjects ==
    [type : {"Database"}, name : NameAttrs, list_collection_names : ListOutcomes]
DatabaseModules ==
    {[import |-> "ImportError", msg |-> <<>>, db |-> None]}
    \cup {[import |-> "Exception", msg |-> m, db |-> None] : m \in Messages}
    \cup {[import |-> "ok", msg |-> <<>>, db |-> d] : d \in {None} \cup DbObjects}
TestRequests ==
    [DATABASE_URL  : EnvValues(<<"u">>),
     DATABASE_NAME : EnvValues(<<"n">>),
     database      : DatabaseModules]

\* def test_database(): the whole handler.
test_database ==
    /\ tstRes = Pending
    /\ LET response == [backend           |-> Text("Running"),
                        database          |-> Text("Not Available"),
                        database_url      |-> None,
                        database_name     |-> None,
                        connection_status |-> "Not Connected",
                        collections       |-> <<>>]
           body == TryBody(tstReq, response)
           out  == ExceptClauses(body.exc, body.response)
       IN  tstRes' =
             IF out.raised THEN [pc |-> "raised"]
             ELSE [pc |-> "returned", response |-> FinalFields(tstReq, out.response)]
    /\ UNCHANGED <<estReq, estRes, conReq, conRes, tstReq>>

TestInit ==
    /\ tstReq \in TestRequests
    /\ tstRes = Pending
    /\ estReq = Idle /\ estRes = Idle /\ conReq = Idle /\ conRes = Idle

SpecTest == TestInit /\ [][test_database]_vars

(***************************************************************************)
(* Properties of POST /api/estimate, checked under SpecEstimate.           *)
(***************************************************************************)
EstimateReturned == estRes # Pending /\ estRes # Idle /\ estRes.pc = "returned"

\* tier is "shikai" in some casing, spelled out letter by letter.
ShikaiAnyCase(tier) ==
    /\ Len(tier) = 6
    /\ tier[1] \in {"s", "S"} /\ tier[2] \in {"h", "H"} /\ tier[3] \in {"i", "I"}
    /\ tier[4] \in {"k", "K"} /\ tier[5] \in {"a", "A"} /\ tier[6] \in {"i", "I"}

\* x * 2^k, exactly.
TimesPow2(x, k) == IF x.man = <<>> THEN x ELSE [x EXCEPT !.exp = @ + k]

\* C1: the base multiplier is 2 when tier is "shikai" in any casing and 4 for
\* every other tier, the empty one included; with no add-ons total is exactly
\* box_price times the multiplier (a doubling or quadrupling of the float)
\* and the estimate is that many hundredths.
C1_BaseMultiplier ==
    EstimateReturned =>
        /\ estRes.base_multiplier = IF ShikaiAnyCase(estReq.tier) THEN 2 ELSE 4
        /\ estReq.addons = <<>> =>
              /\ estRes.total =
                    TimesPow2(Dec(estReq.box_price_cents, 100),
                              IF ShikaiAnyCase(estReq.tier) THEN 1 ELSE 2)
              /\ estRes.estimated_total =
                    estReq.box_price_cents * (IF ShikaiAnyCase(estReq.tier) THEN 2 ELSE 4)

C1_Witness ==
    /\ EstimateReturned
    /\ estReq.tier = <<"S", "H", "I", "K", "A", "I">>
    /\ estReq.addons = <<>>
    /\ estReq.box_price_cents = 10000
    /\ estRes.base_multiplier = 2
    /\ estRes.estimated_total = 20000

\* The surcharge table as the claim gives it, in hundredths.
SurchargePct(a) ==
    CASE a = "OSL Effects"                -> 20
      [] a = "Weathering / Battle Damage" -> 15
      [] a = "Advanced Basing"            -> 15
      [] a = "Fine Freehand Details"      -> 25
      [] a = "Conversions / Kitbashing"   -> 30
      [] a = "Magnetization"              -> 10
      [] OTHER                            -> 0

\* box_price * multiplier plus the surcharges of the first n add-ons, each
\* occurrence counted, in float arithmetic from left to right.
RECURSIVE TotalOfPrefix(_, _, _, _)
TotalOfPrefix(box_price, multiplier, addons, n) ==
    IF n = 0 THEN FMul(box_price, FromInt(multiplier))
    ELSE FAdd(TotalOfPrefix(box_price, multiplier, addons, n - 1),
              FMul(box_price, Dec(SurchargePct(addons[n]), 100)))

\* The same sum in exact arithmetic, in ten-thousandths, box_price in cents.
RECURSIVE SurchargeSum(_, _, _)
SurchargeSum(cents, addons, n) ==
    IF n = 0 THEN 0
    ELSE SurchargeSum(cents, addons, n - 1) + cents * SurchargePct(addons[n])

\* C2: total before rounding is box_price * multiplier plus box_price times
\* the table's fraction for each occurrence of a label in the list, a label
\* given k times counted k times: as the float sum taken in list order, and,
\* to four decimals, as the exact decimal sum.
C2_SumOverList ==
    EstimateReturned =>
        /\ estRes.total =
              TotalOfPrefix(Dec(estReq.box_price_cents, 100), estRes.base_multiplier,
                            estReq.addons, Len(estReq.addons))
        /\ RoundScaled(estRes.total, 10000) =
              estReq.box_price_cents * estRes.base_multiplier * 100
              + SurchargeSum(estReq.box_price_cents, estReq.addons, Len(estReq.addons))

C2_Witness ==
    /\ EstimateReturned
    /\ estReq.box_price_cents = 5000
    /\ estReq.tier = <<"s", "h", "i", "k", "a", "i">>
    /\ estReq.addons = <<"Magnetization", "Magnetization">>
    /\ estRes.estimated_total = 11000

IsKey(a) ==
    a \in {"OSL Effects", "Weathering / Battle Damage", "Advanced Basing",
           "Fine Freehand Details", "Conversions / Kitbashing", "Magnetization"}

\* C3: labels that are not exact keys of the table add nothing and raise
\* nothing: the handler returns, and total and estimated_total are those of
\* the request with the unknown labels taken out of the list.
C3_UnknownIgnored ==
    estRes # Pending =>
        /\ EstimateReturned
        /\ LET known == SelectSeq(estReq.addons, IsKey)
               t == EstimateTotal(Dec(estReq.box_price_cents, 100), estReq.tier, known)
           IN  /\ estRes.total = t
               /\ estRes.estimated_total = Round2(t)

C3_Witness ==
    /\ EstimateReturned
    /\ estReq.box_price_cents = 10000
    /\ estReq.tier = <<"b", "a", "n", "k", "a", "i">>
    /\ estReq.addons = <<"magnetization", "OSL Effects">>
    /\ estRes.estimated_total = 42000

\* The lists that hold the labels of addons with the same multiplicities.
Reorderings(addons) ==
    {[i \in 1..Len(addons) |-> addons[p[i]]] :
        p \in {q \in [1..Len(addons) -> 1..Len(addons)] :
                 \A i, j \in 1..Len(addons) : q[i] = q[j] => i = j}}

\* C7: every list that is a permutation of the request's add-on list yields
\* the same estimated_total.
C7_OrderIrrelevant ==
    EstimateReturned =>
        \A other \in Reorderings(estReq.addons) :
            Round2(EstimateTotal(Dec(estReq.box_price_cents, 100), estReq.tier, other))
              = estRes.estimated_total

\* C8 as stated: the estimated_total of every accepted request is not
\* negative.
C8_NonNegative == EstimateReturned => estRes.estimated_total >= 0

\* C8 amended: the estimated_total of every accepted request whose box_price
\* is not negative is not negative, and neither is total before rounding.
C8_NonNegativeForNonNegativePrice ==
    (EstimateReturned /\ estReq.box_price_cents >= 0) =>
        /\ estRes.estimated_total >= 0
        /\ ~estRes.total.neg

C8_Witness ==
    /\ EstimateReturned
    /\ estReq.box_price_cents = 1
    /\ estReq.addons = <<"Conversions / Kitbashing", "OSL Effects">>
    /\ estRes.estimated_total > 0

(***************************************************************************)
(* Properties of POST /api/contact, checked under SpecContact.             *)
(***************************************************************************)
ContactDone == conRes # Pending /\ conRes # Idle
ContactReturned == ContactDone /\ conRes.pc = "returned"

\* C4: with the required fields present the response is a success with
\* ok = true whatever the database does; id is null when the import of
\* create_document fails or create_document raises; received echoes the
\* payload; create_document is called at most once, and only when the import
\* succeeded.
C4_ContactAlwaysOk ==
    ContactDone =>
        /\ conRes.pc = "returned"
        /\ conRes.ok = TRUE
        /\ (conReq.database.import = "fails" \/ conReq.database.create_document = "raises")
              => conRes.id = None
        /\ conReq.database.create_document = "returns"
              => conRes.id = [type |-> "str", value |-> conReq.database.id]
        /\ conRes.received.name = conReq.name
        /\ conRes.received.email = conReq.email
        /\ conRes.received.description = conReq.description
        /\ conRes.received.tier = conReq.tier
        /\ conRes.received.source = "website"
        /\ Len(conRes.calls) <= 1
        /\ conRes.calls # <<>> => conReq.database.import = "ok"
        /\ \A i \in 1..Len(conRes.calls) : conRes.calls[i].payload = conRes.received

C4_Witness ==
    /\ ContactReturned
    /\ conReq.database.import = "ok"
    /\ conReq.database.create_document = "raises"
    /\ Len(conRes.calls) = 1
    /\ conRes.ok = TRUE
    /\ conRes.id = None

UploadsOf(files) == IF files = None THEN <<>> ELSE files.items

\* C5: a failing read or close of one upload neither aborts the submission
\* nor skips a file: files in the payload has one entry per upload, in upload
\* order; size is null for an upload whose read failed, and the byte length
\* for one whose read and close succeeded.
C5_FilePerUpload ==
    ContactDone =>
        /\ conRes.pc = "returned"
        /\ LET ups == UploadsOf(conReq.files)
               info == conRes.received.files
           IN  /\ Len(info) = Len(ups)
               /\ \A i \in 1..Len(ups) :
                     /\ info[i].filename = ups[i].filename
                     /\ info[i].content_type = ups[i].content_type
                     /\ ups[i].read = "raises" => info[i].size = None
                     /\ (ups[i].read = "ok" /\ ups[i].close = "ok")
                           => info[i].size = [type |-> "int", value |-> ups[i].nbytes]

C5_Witness ==
    /\ ContactReturned
    /\ Len(UploadsOf(conReq.files)) = 2
    /\ conReq.files.items[1].read = "raises"
    /\ conReq.files.items[1].filename = "b.jpg"
    /\ conReq.files.items[2].read = "ok" /\ conReq.files.items[2].close = "ok"
    /\ conReq.files.items[2].filename = "a.png"
    /\ conRes.received.files[1].size = None
    /\ conRes.received.files[2].size = [type |-> "int", value |-> 3]

(***************************************************************************)
(* Properties of GET /test, checked under SpecTest.                        *)
(***************************************************************************)
TestDone == tstRes # Pending /\ tstRes # Idle
TestReturned == TestDone /\ tstRes.pc = "returned"

\* The paths through the handler, read off the request.
ModuleMissing == tstReq.database.import = "ImportError"
ImportRaises == tstReq.database.import = "Exception"
DbIsNone == tstReq.database.import = "ok" /\ tstReq.database.db = None
DbPresent == tstReq.database.import = "ok" /\ tstReq.database.db # None
NameRaises == DbPresent /\ tstReq.database.db.name.kind = "raises"
ListingRaises ==
    DbPresent /\ ~NameRaises /\ tstReq.database.db.list_collection_names.kind = "raises"
ListingSucceeds ==
    DbPresent /\ ~NameRaises /\ tstReq.database.db.list_collection_names.kind = "returns"

Prefix(msg, n) == [i \in 1..(IF Len(msg) < n THEN Len(msg) ELSE n) |-> msg[i]]

\* C6: test_database always returns a response and raises nothing: a failed
\* import of the module, another exception during the import or while db is
\* inspected, and an exception of list_collection_names each end as a text
\* in the database field (with at most 50 characters of the message).
C6_TestNeverRaises ==
    TestDone =>
        /\ tstRes.pc = "returned"
        /\ ModuleMissing =>
              tstRes.response.database = [text |-> "Database module not found", detail |-> <<>>]
        /\ ImportRaises =>
              tstRes.response.database =
                 [text |-> "Error: ", detail |-> Prefix(tstReq.database.msg, 50)]
        /\ NameRaises =>
              tstRes.response.database =
                 [text |-> "Error: ", detail |-> Prefix(tstReq.database.db.name.msg, 50)]
        /\ ListingRaises =>
              tstRes.response.database =
                 [text |-> "Connected but Error: ",
                  detail |-> Prefix(tstReq.database.db.list_collection_names.msg, 50)]

C6_Witness ==
    /\ TestReturned
    /\ ImportRaises
    /\ Len(tstReq.database.msg) = 52
    /\ tstRes.response.database.text = "Error: "
    /\ Len(tstRes.response.database.detail) = 50

\* C9: collections is the first 10 names, in order, of what
\* list_collection_names returned when that call succeeded, so never more
\* than 10; in every other outcome it is the empty list.
C9_CollectionsFirstTen ==
    TestReturned =>
        /\ Len(tstRes.response.collections) <= 10
        /\ ListingSucceeds =>
              tstRes.response.collections =
                 Prefix(tstReq.database.db.list_collection_names.names, 10)
        /\ ~ListingSucceeds => tstRes.response.collections = <<>>

C9_Witness ==
    /\ TestReturned
    /\ ListingSucceeds
    /\ Len(tstReq.database.db.list_collection_names.names) = 11
    /\ tstRes.response.collections = <<1, 2, 3, 4, 5, 6, 7, 8, 9, 10>>

\* The part of C10 about the database outcome.
StatusConsistent ==
    /\ tstRes.response.database = [text |-> "Connected & Working", detail |-> <<>>]
          => (ListingSucceeds /\ tstRes.response.connection_status = "Connected")
    /\ ListingSucceeds
          => tstRes.response.database = [text |-> "Connected & Working", detail |-> <<>>]
    /\ (ModuleMissing \/ DbIsNone)
          => tstRes.response.connection_status = "Not Connected"

IsSet(value) == value # None
IsSetNonEmpty(value) == value # None /\ value.chars # <<>>
SetText(b) ==
    IF b THEN [text |-> "Set", detail |-> <<>>] ELSE [text |-> "Not Set", detail |-> <<>>]

\* C10 as stated: database and connection_status agree with the path taken,
\* and the final database_url and database_name say whether DATABASE_URL and
\* DATABASE_NAME are set in the environment, whatever the database did.
C10_FieldsConsistent ==
    TestReturned =>
        /\ StatusConsistent
        /\ tstRes.response.database_url = SetText(IsSet(tstReq.DATABASE_URL))
        /\ tstRes.response.database_name = SetText(IsSet(tstReq.DATABASE_NAME))

\* C10 amended: the same, the final database_url and database_name saying
\* whether DATABASE_URL and DATABASE_NAME are set to a non-empty value.
C10_FieldsConsistentNonEmpty ==
    TestReturned =>
        /\ StatusConsistent
        /\ tstRes.response.database_url = SetText(IsSetNonEmpty(tstReq.DATABASE_URL))
        /\ tstRes.response.database_name = SetText(IsSetNonEmpty(tstReq.DATABASE_NAME))

C10_Witness ==
    /\ TestReturned
    /\ ModuleMissing
    /\ tstReq.DATABASE_URL = [type |-> "str", chars |-> <<>>]
    /\ IsSetNonEmpty(tstReq.DATABASE_NAME)
    /\ tstRes.response.database_url.text = "Not Set"
    /\ tstRes.response.database_name.text = "Set"
    /\ tstRes.response.connection_status = "Not Connected"
====
